---- MODULE Spec2Model ----
(***************************************************************************)
(* Two browser demos driven by a render loop: the "sun" sphere             *)
(* (src/src/script.js) and the rotating pyramid (src/unnamed/part_000).    *)
(* Each script runs to completion once (Startup); afterwards the host      *)
(* delivers frame callbacks (Tick), resize events (ResizeHandler), GUI     *)
(* edits (sun) and the cube-map load outcome (pyramid), one at a time.     *)
(*                                                                         *)
(* Units.  JavaScript numbers are IEEE-754 doubles.  The values the        *)
(* pyramid accumulates by "+= 0.01" are modelled bit-exactly as doubles    *)
(* (see Double below).  Window sizes are integers (CSS pixels),            *)
(* devicePixelRatio and the GUI-editable uniforms are in hundredths, the   *)
(* sun's elapsed time is in tenths of a second, shader coordinates are in  *)
(* thousandths.                                                            *)
(***************************************************************************)
EXTENDS Integers, Sequences, FiniteSets, TLC

VARIABLES
    demo,          \* which script the page runs: "sun" or "pyramid"
    pc,            \* "loading" before the script has run, "running" after
    window,        \* host: innerWidth, innerHeight, devicePixelRatio
    resizeEvents,  \* host: resize events dispatched and not yet delivered
    listeners,     \* event types the script has registered a listener for
    created,       \* how often scene, camera, controls, renderer were constructed
    fault,         \* "none", or the exception a handler run ended with
    sizes,         \* the script's sizes object
    camera,        \* camera.aspect
    renderer,      \* renderer size, pixel ratio and info.render.frame
    uniforms,      \* the uniforms' value slots of the material(s)
    rotationY,     \* pyramid.rotation.y
    clock,         \* THREE.Clock: running flag and elapsedTime (sun)
    envMap,        \* state of the cube texture's asynchronous load (pyramid)
    rafPending,    \* frame callbacks requested and not yet run
    drawn,         \* what the latest renderer.render call drew with
    frameLog,      \* the steps of the latest tick, in execution order
    written,       \* per GUI control, the value its latest edit wrote
    edits,         \* number of GUI edits so far
    probe          \* latest shader evaluation (shader specifications only)

vars == <<demo, pc, window, resizeEvents, listeners, created, fault, sizes,
          camera, renderer, uniforms, rotationY, clock, envMap, rafPending,
          drawn, frameLog, written, edits, probe>>

progVars == <<demo, pc, window, resizeEvents, listeners, created, fault, sizes,
              camera, renderer, uniforms, rotationY, clock, envMap, rafPending,
              drawn, frameLog, written, edits>>

(***************************************************************************)
(* Bounds of the model.                                                    *)
(***************************************************************************)
MaxTicks == 100
MaxSunFrames == 2
MaxEdits == 2
MaxResizeEvents == 1

(***************************************************************************)
(* IEEE-754 binary64, restricted to +0 and the positive normal numbers.    *)
(* A double is [hi, lo, e] with value (hi * 2^27 + lo) * 2^e; the 53-bit   *)
(* significand is split in two limbs so that every intermediate fits in    *)
(* 32 bits.  A normal number has 2^25 <= hi < 2^26; zero is hi = lo = 0.   *)
(***************************************************************************)
LimbBase == 2^27
HiNorm == 2^25

DZero == [hi |-> 0, lo |-> 0, e |-> 0]
DIsZero(a) == a.hi = 0 /\ a.lo = 0

\* The significand (hi, lo) shifted right by d bits; g is the last bit shifted
\* out, s tells whether any bit shifted out before it was set.
ShiftRight(hi, lo, d) ==
    IF d = 0 THEN [hi |-> hi, lo |-> lo, g |-> 0, s |-> 0]
    ELSE IF d <= 27
    THEN [hi |-> hi \div 2^d,
          lo |-> (hi % 2^d) * 2^(27 - d) + lo \div 2^d,
          g  |-> (lo \div 2^(d - 1)) % 2,
          s  |-> IF lo % 2^(d - 1) # 0 THEN 1 ELSE 0]
    ELSE IF d <= 53
    THEN [hi |-> 0,
          lo |-> hi \div 2^(d - 27),
          g  |-> (hi \div 2^(d - 28)) % 2,
          s  |-> IF hi % 2^(d - 28) # 0 \/ lo # 0 THEN 1 ELSE 0]
    ELSE [hi |-> 0, lo |-> 0, g |-> 0, s |-> 1]

\* A sum that reached 2^53, shifted right by one bit.
CarryShift(m) ==
    [hi |-> m.hi \div 2,
     lo |-> (m.hi % 2) * (LimbBase \div 2) + m.lo \div 2,
     g  |-> m.lo % 2,
     s  |-> IF m.g = 1 \/ m.s = 1 THEN 1 ELSE 0]

\* Round to nearest, ties to even, then renormalise.
RoundNearestEven(m, e) ==
    LET up == m.g = 1 /\ (m.s = 1 \/ m.lo % 2 = 1)
        lo1 == IF up THEN m.lo + 1 ELSE m.lo
        hi1 == m.hi + lo1 \div LimbBase
    IN  IF hi1 >= 2 * HiNorm
        THEN [hi |-> HiNorm, lo |-> 0, e |-> e + 1]
        ELSE [hi |-> hi1, lo |-> lo1 % LimbBase, e |-> e]

\* The sum of the significand (hi, lo) and the aligned significand sh of the
\* smaller operand, rounded; e is the exponent of the larger operand.
AddAligned(hi, lo, e, sh) ==
    LET lo0 == lo + sh.lo
        sum == [hi |-> hi + sh.hi + lo0 \div LimbBase,
                lo |-> lo0 % LimbBase, g |-> sh.g, s |-> sh.s]
    IN  IF sum.hi >= 2 * HiNorm
        THEN RoundNearestEven(CarryShift(sum), e + 1)
        ELSE RoundNearestEven(sum, e)

\* a + b for doubles a, b >= 0, as the "+" of the language computes it.  (The
\* aligned significand is drawn from a singleton set, so that it is computed
\* once.)
DAdd(a, b) ==
    IF DIsZero(a) THEN b
    ELSE IF DIsZero(b) THEN a
    ELSE LET big   == IF a.e >= b.e THEN a ELSE b
             small == IF a.e >= b.e THEN b ELSE a
         IN  CHOOSE r \in {AddAligned(big.hi, big.lo, big.e, sh) :
                              sh \in {ShiftRight(small.hi, small.lo, big.e - small.e)}} :
                 TRUE

\* The literal 0.01 = 0x3F847AE147AE147B and the number 1.0.
Increment == [hi |-> 42949672, lo |-> 128849019, e |-> -59]
DOne == [hi |-> HiNorm, lo |-> 0, e |-> -52]

\* 0.01 added n times to 0.0.
RECURSIVE SumAfter(_)
SumAfter(n) ==
    IF n = 0 THEN DZero
    ELSE CHOOSE r \in {DAdd(p, Increment) : p \in {SumAfter(n - 1)}} : TRUE

(***************************************************************************)
(* The host: window geometry the browser can report.                       *)
(***************************************************************************)
WindowSizes == {<<800, 600>>, <<1920, 1080>>}
PixelRatios == {150, 300}
Windows == {[innerWidth |-> wh[1], innerHeight |-> wh[2], devicePixelRatio |-> r] :
                wh \in WindowSizes, r \in PixelRatios}

Unset == [unset |-> TRUE]

Min(a, b) == IF a <= b THEN a ELSE b

RECURSIVE Gcd(_, _)
Gcd(a, b) == IF b = 0 THEN a ELSE Gcd(b, a % b)

\* The quotient w / h, kept as the fraction in lowest terms.
Quotient(w, h) == <<w \div Gcd(w, h), h \div Gcd(w, h)>>

\* Math.min(window.devicePixelRatio, 2)
PixelRatioCap == 200
UncappedPixelRatio(w) == w.devicePixelRatio
CappedPixelRatio(w) == Min(w.devicePixelRatio, PixelRatioCap)

(***************************************************************************)
(* The sun demo's material and GUI declarations.                           *)
(***************************************************************************)
NumericControls == {"uWaveSpeed", "uSmallWaveFrequency", "uSmallWaveSpeed",
                    "uWaveHeight", "uColorMultiplier"}
ColorControls == {"uSurfaceColor", "uDepthColor"}

\* As SunInitialUniforms, with uWaveHeight declared as 0.6.
SunInitialUniformsTallWave ==
    [uTime |-> 0, uWaveSpeed |-> 100, uSmallWaveFrequency |-> 1000,
     uSmallWaveSpeed |-> 200, uWaveHeight |-> 60, uColorMultiplier |-> 100,
     uSurfaceColor |-> <<100, 50, 0>>, uDepthColor |-> <<100, 0, 0>>]

SunInitialUniforms ==
    [uTime |-> 0, uWaveSpeed |-> 100, uSmallWaveFrequency |-> 1000,
     uSmallWaveSpeed |-> 200, uWaveHeight |-> 15, uColorMultiplier |-> 100,
     uSurfaceColor |-> <<100, 50, 0>>, uDepthColor |-> <<100, 0, 0>>]

\* gui.add(slot, 'value', min, max, step)
ControlRange ==
    [uWaveSpeed          |-> [min |-> 10,  max |-> 500,  step |-> 10],
     uSmallWaveFrequency |-> [min |-> 100, max |-> 3000, step |-> 100],
     uSmallWaveSpeed     |-> [min |-> 10,  max |-> 500,  step |-> 10],
     uWaveHeight         |-> [min |-> 5,   max |-> 50,   step |-> 1],
     uColorMultiplier    |-> [min |-> 10,  max |-> 500,  step |-> 10]]

\* The widget's treatment of a value the user enters: snapped to the step grid
\* that starts at min (Math.round), then clamped to [min, max].
Snap(r, v) == r.min + ((2 * (v - r.min) + r.step) \div (2 * r.step)) * r.step
Clamp(r, v) == IF v < r.min THEN r.min ELSE IF v > r.max THEN r.max ELSE v
WidgetValue(c, v) == Clamp(ControlRange[c], Snap(ControlRange[c], v))

\* Values a user may enter in a numeric control, and colours a user may pick.
Entered(c) == LET r == ControlRange[c]
              IN  {r.min - r.step, r.min, r.max, r.max + r.step}
Picked == {<<0, 0, 100>>}

(***************************************************************************)
(* The pyramid demo's materials: only materials[0] and materials[3]       *)
(* declare a uTime uniform.                                                *)
(***************************************************************************)
PyramidInitialUniforms == [m0uTime |-> DZero, m3uTime |-> DZero]

(***************************************************************************)
(* The body of tick, as the ordered list of its statements.  A run of      *)
(* tick works on the record s of everything a statement reads or writes;   *)
(* dt is the time the host's clock advanced since the clock was last read. *)
(***************************************************************************)
SunTickSteps == <<"clock", "uTime", "controls", "render", "raf">>
PyramidTickStepsDrawFirst == <<"uTime", "render", "rotation", "controls", "raf">>
PyramidTickSteps == <<"uTime", "rotation", "controls", "render", "raf">>
TickSteps(d) == IF d = "sun" THEN SunTickSteps ELSE PyramidTickSteps

\* clock.getElapsedTime(): the first call starts the clock and reads 0.
ReadClock(c, dt) ==
    IF c.running THEN [c EXCEPT !.elapsedTime = @ + dt]
    ELSE [c EXCEPT !.running = TRUE]

\* As UpdateTime, with the sun's elapsed time written to uWaveSpeed's slot.
UpdateTimeInSpeedSlot(d, s) ==
    IF d = "sun"
    THEN [s.uniforms EXCEPT !.uWaveSpeed = s.clock.elapsedTime]
    ELSE [s.uniforms EXCEPT !.m0uTime = DAdd(@, Increment),
                            !.m3uTime = DAdd(@, Increment)]

UpdateTime(d, s) ==
    IF d = "sun"
    THEN [s.uniforms EXCEPT !.uTime = s.clock.elapsedTime]
    ELSE [s.uniforms EXCEPT !.m0uTime = DAdd(@, Increment),
                            !.m3uTime = DAdd(@, Increment)]

\* pyramid.rotation.y += 0.01, and the same with 0.02.
RotateDouble(r) == DAdd(r, [Increment EXCEPT !.e = @ + 1])
Rotate(r) == DAdd(r, Increment)

\* window.requestAnimationFrame(tick), and a tick that requests no frame.
NoAnimationFrame(pending) == pending
RequestAnimationFrame(pending) == pending + 1

\* renderer.render(scene, camera): draws with the values of this moment.
Render(s) ==
    [s EXCEPT !.drawn = [uniforms |-> s.uniforms, rotationY |-> s.rotationY,
                         envMap |-> s.envMap, aspect |-> s.camera.aspect],
              !.renderer = [@ EXCEPT !.frame = @ + 1]]

Statement(d, s, name, dt) ==
    LET t == [s EXCEPT !.frameLog = Append(@, name)]
    IN  CASE name = "clock"    -> [t EXCEPT !.clock = ReadClock(s.clock, dt)]
          [] name = "uTime"    -> [t EXCEPT !.uniforms = UpdateTime(d, s)]
          [] name = "rotation" -> [t EXCEPT !.rotationY = Rotate(s.rotationY)]
          [] name = "controls" -> t
          [] name = "render"   -> Render(t)
          [] name = "raf"      -> [t EXCEPT !.rafPending = RequestAnimationFrame(@)]

\* The statements from the i-th on, run in order on s.  (Each intermediate
\* state n is drawn from a singleton set, so that it is computed once.)
RECURSIVE RunFrom(_, _, _, _, _)
RunFrom(d, s, steps, i, dt) ==
    IF i > Len(steps) THEN s
    ELSE CHOOSE r \in {RunFrom(d, n, steps, i + 1, dt) :
                          n \in {Statement(d, s, steps[i], dt)}} : TRUE

RunTick(d, s, dt) == RunFrom(d, [s EXCEPT !.frameLog = <<>>], TickSteps(d), 1, dt)

(***************************************************************************)
(* The page before its script has run.                                     *)
(***************************************************************************)
Init ==
    /\ demo \in {"sun", "pyramid"}
    /\ pc = "loading"
    /\ window \in Windows
    /\ resizeEvents = 0
    /\ listeners = {}
    /\ created = [scene |-> 0, camera |-> 0, controls |-> 0, renderer |-> 0]
    /\ fault = "none"
    /\ sizes = Unset
    /\ camera = Unset
    /\ renderer = Unset
    /\ uniforms = Unset
    /\ rotationY = Unset
    /\ clock = Unset
    /\ envMap = "none"
    /\ rafPending = 0
    /\ drawn = Unset
    /\ frameLog = <<>>
    /\ written = Unset
    /\ edits = 0
    /\ probe = Unset

\* What a run of tick reads and writes, gathered in one record.
TickState ==
    [uniforms |-> uniforms, rotationY |-> rotationY, clock |-> clock,
     renderer |-> renderer, camera |-> camera, envMap |-> envMap, drawn |-> drawn,
     rafPending |-> rafPending, frameLog |-> frameLog]

\* renderer.setSize(w, h); renderer.setPixelRatio(Math.min(devicePixelRatio, 2))
SizedRenderer(r, sz, w) ==
    [r EXCEPT !.width = sz.width, !.height = sz.height,
              !.pixelRatio = CappedPixelRatio(w)]

\* The objects the script constructs, and a script that constructs no renderer.
CreatedWithoutRenderer == [scene |-> 1, camera |-> 1, controls |-> 1, renderer |-> 0]
CreatedObjects == [scene |-> 1, camera |-> 1, controls |-> 1, renderer |-> 1]

\* The module script, top to bottom: everything up to the first call of tick.
Constructed(d, w) ==
    LET sz == [width |-> w.innerWidth, height |-> w.innerHeight]
    IN  [sizes     |-> sz,
         listeners |-> {"resize"},
         camera    |-> [aspect |-> Quotient(sz.width, sz.height)],
         created   |-> CreatedObjects,
         renderer  |-> SizedRenderer([width |-> 0, height |-> 0,
                                      pixelRatio |-> 100, frame |-> 0], sz, w),
         uniforms  |-> IF d = "sun" THEN SunInitialUniforms ELSE PyramidInitialUniforms,
         rotationY |-> IF d = "sun" THEN Unset ELSE DZero,
         clock     |-> IF d = "sun" THEN [running |-> FALSE, elapsedTime |-> 0] ELSE Unset,
         envMap    |-> IF d = "sun" THEN "none" ELSE "loading",
         written   |-> IF d = "sun"
                       THEN [c \in NumericControls \cup ColorControls |->
                                SunInitialUniforms[c]]
                       ELSE Unset]

\* The script runs once, to completion, and ends with its call tick().
Startup ==
    /\ pc = "loading"
    /\ \E k \in {Constructed(demo, window)} :
       \E t \in {RunTick(demo, [uniforms |-> k.uniforms, rotationY |-> k.rotationY,
                                clock |-> k.clock, renderer |-> k.renderer,
                                camera |-> k.camera, envMap |-> k.envMap,
                                drawn |-> drawn, rafPending |-> rafPending,
                                frameLog |-> frameLog], 0)} :
           /\ pc' = "running"
           /\ sizes' = k.sizes
           /\ listeners' = k.listeners
           /\ camera' = k.camera
           /\ created' = [c \in DOMAIN created |-> created[c] + k.created[c]]
           /\ written' = k.written
           /\ envMap' = t.envMap
           /\ uniforms' = t.uniforms
           /\ rotationY' = t.rotationY
           /\ clock' = t.clock
           /\ renderer' = t.renderer
           /\ drawn' = t.drawn
           /\ rafPending' = t.rafPending
           /\ frameLog' = t.frameLog
    /\ UNCHANGED <<demo, window, resizeEvents, fault, edits, probe>>

FrameCap == IF demo = "sun" THEN MaxSunFrames ELSE MaxTicks
FrameDeltas == {0, 1}

\* The host runs a requested callback at the next frame, whatever else the
\* page is waiting for (FrameDueOnceLoaded: only once the cube map has settled).
FrameDueOnceLoaded == pc = "running" /\ fault = "none" /\ rafPending > 0
                        /\ envMap \in {"none", "loaded"}

FrameDue == pc = "running" /\ fault = "none" /\ rafPending > 0

\* The host runs a pending frame callback: one run of tick.
Tick ==
    /\ FrameDue
    /\ renderer.frame < FrameCap
    /\ \E dt \in (IF demo = "sun" THEN FrameDeltas ELSE {0}) :
          \E t \in {RunTick(demo, [TickState EXCEPT !.rafPending = @ - 1], dt)} :
              /\ uniforms' = t.uniforms
              /\ rotationY' = t.rotationY
              /\ clock' = t.clock
              /\ renderer' = t.renderer
              /\ drawn' = t.drawn
              /\ rafPending' = t.rafPending
              /\ frameLog' = t.frameLog
    /\ UNCHANGED <<demo, pc, window, resizeEvents, listeners, created, fault, sizes,
                   camera, envMap, written, edits, probe>>

\* The host resizes the window (or moves it to another screen) and dispatches
\* a resize event; with no listener registered the event is dropped, and the
\* browser coalesces events beyond MaxResizeEvents.
WindowResize ==
    /\ \E w \in Windows \ {window} : window' = w
    /\ resizeEvents' = IF "resize" \in listeners
                       THEN Min(resizeEvents + 1, MaxResizeEvents)
                       ELSE 0
    /\ UNCHANGED <<demo, pc, listeners, created, fault, sizes, camera, renderer,
                   uniforms, rotationY, clock, envMap, rafPending, drawn, frameLog,
                   written, edits, probe>>

\* The resize listener.  It names camera and renderer, which are declared
\* further down the script: run before they exist it ends in a ReferenceError
\* after updating sizes.
ResizeEffect(w, cr, sz, cam, r) ==
    LET nsz == [width |-> w.innerWidth, height |-> w.innerHeight]
    IN  IF cr.camera = 0 \/ cr.renderer = 0
        THEN [sizes |-> nsz, camera |-> cam, renderer |-> r, fault |-> "ReferenceError"]
        ELSE [sizes |-> nsz,
              camera |-> [cam EXCEPT !.aspect = Quotient(nsz.width, nsz.height)],
              renderer |-> SizedRenderer(r, nsz, w),
              fault |-> "none"]

ResizeHandler ==
    /\ "resize" \in listeners
    /\ resizeEvents > 0
    /\ fault = "none"
    /\ resizeEvents' = resizeEvents - 1
    /\ LET e == ResizeEffect(window, created, sizes, camera, renderer)
       IN  /\ sizes' = e.sizes
           /\ camera' = e.camera
           /\ renderer' = e.renderer
           /\ fault' = e.fault
    /\ UNCHANGED <<demo, pc, window, listeners, created, uniforms, rotationY, clock,
                   envMap, rafPending, drawn, frameLog, written, edits, probe>>

\* The user enters a value in one of the sun demo's numeric controls: the
\* widget writes the uniform's value slot at once.
EditEffect(u, c, v) == [u EXCEPT ![c] = WidgetValue(c, v)]

ControlEdit ==
    /\ demo = "sun"
    /\ pc = "running"
    /\ fault = "none"
    /\ edits < MaxEdits
    /\ \E c \in NumericControls : \E v \in Entered(c) :
          /\ uniforms' = EditEffect(uniforms, c, v)
          /\ written' = [written EXCEPT ![c] = uniforms'[c]]
    /\ edits' = edits + 1
    /\ UNCHANGED <<demo, pc, window, resizeEvents, listeners, created, fault, sizes,
                   camera, renderer, rotationY, clock, envMap, rafPending, drawn,
                   frameLog, probe>>

\* The user picks a colour in one of the two colour controls.
ColorEdit ==
    /\ demo = "sun"
    /\ pc = "running"
    /\ fault = "none"
    /\ edits < MaxEdits
    /\ \E c \in ColorControls : \E v \in Picked :
          /\ uniforms' = [uniforms EXCEPT ![c] = v]
          /\ written' = [written EXCEPT ![c] = v]
    /\ edits' = edits + 1
    /\ UNCHANGED <<demo, pc, window, resizeEvents, listeners, created, fault, sizes,
                   camera, renderer, rotationY, clock, envMap, rafPending, drawn,
                   frameLog, probe>>

\* The six images of the cube map finish loading, or one of them fails.  The
\* script passes the loader no callback.
LoadOutcome(e, outcome) == outcome

EnvMapSettles ==
    /\ demo = "pyramid"
    /\ pc = "running"
    /\ envMap = "loading"
    /\ \E outcome \in {"loaded", "failed"} : envMap' = LoadOutcome(envMap, outcome)
    /\ UNCHANGED <<demo, pc, window, resizeEvents, listeners, created, fault, sizes,
                   camera, renderer, uniforms, rotationY, clock, rafPending, drawn,
                   frameLog, written, edits, probe>>

Next ==
    \/ Startup
    \/ Tick
    \/ WindowResize
    \/ ResizeHandler
    \/ ControlEdit
    \/ ColorEdit
    \/ EnvMapSettles

Spec == Init /\ [][Next]_vars

\* Each demo on its own.
SunNext ==
    \/ Startup
    \/ Tick
    \/ WindowResize
    \/ ResizeHandler
    \/ ControlEdit
    \/ ColorEdit

SunInit == Init /\ demo = "sun"

SunSpec == SunInit /\ [][SunNext]_vars

PyramidNext ==
    \/ Startup
    \/ Tick
    \/ WindowResize
    \/ ResizeHandler
    \/ EnvMapSettles

PyramidInit == Init /\ demo = "pyramid"

PyramidSpec == PyramidInit /\ [][PyramidNext]_vars

\* Frame callbacks that were requested are delivered.
FairSpec == Spec /\ WF_vars(Tick)

(***************************************************************************)
(* The shaders as functions of their inputs.  Angles and sines are in      *)
(* units of 10^-4, positions and texture coordinates in thousandths.       *)
(***************************************************************************)
TwoPiE4 == 62832
PiE4 == 31416

\* sin x for 0 <= x <= pi/2, by its Taylor polynomial of degree 7.
SinQuadrant(x) ==
    LET x2 == (x * x) \div 10000
        x3 == (x2 * x) \div 10000
        x5 == (x3 * x2) \div 10000
        x7 == ((x5 \div 10) * x2) \div 1000
    IN  x - x3 \div 6 + x5 \div 120 - x7 \div 5040

SinE4(a) ==
    LET r == a % TwoPiE4
        h == IF r >= PiE4 THEN r - PiE4 ELSE r
        q == IF 2 * h > PiE4 THEN PiE4 - h ELSE h
    IN  IF r >= PiE4 THEN 0 - SinQuadrant(q) ELSE SinQuadrant(q)

\* The sun's vertex shader: displacement in units of 10^-8 and the displaced
\* position in units of 10^-6.  The normal of the unit sphere is the position.
\* (CosineDisplacement: the large wave taken as a cosine.)
CosineDisplacement(pos, u) ==
    u.uWaveHeight *
      (SinE4(pos.x * 100 + u.uTime * u.uWaveSpeed * 10 + PiE4 \div 2) * 5
       + SinE4((pos.y * u.uSmallWaveFrequency) \div 10
               + u.uTime * u.uSmallWaveSpeed * 10) * 3)

Displacement(pos, u) ==
    u.uWaveHeight *
      (SinE4(pos.x * 100 + u.uTime * u.uWaveSpeed * 10) * 5
       + SinE4((pos.y * u.uSmallWaveFrequency) \div 10
               + u.uTime * u.uSmallWaveSpeed * 10) * 3)

SunVertexShader(pos, u) ==
    LET d == Displacement(pos, u)
    IN  [displacement |-> d,
         newPosition  |-> [x |-> pos.x * 1000 + (pos.x * (d \div 100)) \div 1000,
                           y |-> pos.y * 1000 + (pos.y * (d \div 100)) \div 1000,
                           z |-> pos.z * 1000 + (pos.z * (d \div 100)) \div 1000]]

\* The pyramid's checkerboard fragment shader.
Floor10(t) == (t * 10) \div 1000
GlslMod(x, y) == x - y * (x \div y)
\* CheckerCoarse: cells of 0.2 instead of 0.1.
CheckerCoarse(uv) == GlslMod(Floor10(uv[1]) \div 2 + Floor10(uv[2]) \div 2, 2)
Checker(uv) == GlslMod(Floor10(uv[1]) + Floor10(uv[2]), 2)
CheckerFragmentShader(uv) ==
    LET c == Checker(uv)
    IN  [checker |-> c, color |-> <<1 - c, 1 - c, 1 - c>>]

\* Vertices of SphereGeometry(1, 64, 64) at longitudes and colatitudes that
\* are multiples of 45 degrees.
Cos45 == <<1000, 707, 0, -707, -1000, -707, 0, 707>>
Sin45 == <<0, 707, 1000, 707, 0, -707, -1000, -707>>
Times1000(a, b) == (a * b + 500) \div 1000
SphereVertices ==
    {[x |-> 0 - Times1000(Cos45[i], Sin45[j]),
      y |-> Cos45[j],
      z |-> Times1000(Sin45[i], Sin45[j])] : i \in 1..8, j \in 1..5}

UVGrid == {25 * i : i \in 0..40}

ShaderUniforms ==
    {[SunInitialUniforms EXCEPT !.uTime = t, !.uWaveSpeed = ws, !.uWaveHeight = wh] :
        t \in {0, 5, 10}, ws \in {100, 500}, wh \in {15, 50}}

ShaderInputs ==
    {[shader |-> "sunVertex", position |-> pos, uniforms |-> u, out |-> Unset] :
        pos \in SphereVertices, u \in ShaderUniforms}
    \cup
    {[shader |-> "checker", uv |-> <<u, v>>, out |-> Unset] : u \in UVGrid, v \in UVGrid}

ShaderInit ==
    /\ probe \in ShaderInputs
    /\ demo = IF probe.shader = "sunVertex" THEN "sun" ELSE "pyramid"
    /\ pc = "loading"
    /\ window = [innerWidth |-> 800, innerHeight |-> 600, devicePixelRatio |-> 100]
    /\ resizeEvents = 0
    /\ listeners = {}
    /\ created = [scene |-> 0, camera |-> 0, controls |-> 0, renderer |-> 0]
    /\ fault = "none"
    /\ sizes = Unset
    /\ camera = Unset
    /\ renderer = Unset
    /\ uniforms = Unset
    /\ rotationY = Unset
    /\ clock = Unset
    /\ envMap = "none"
    /\ rafPending = 0
    /\ drawn = Unset
    /\ frameLog = <<>>
    /\ written = Unset
    /\ edits = 0

EvalVertex ==
    /\ probe.shader = "sunVertex"
    /\ probe.out = Unset
    /\ probe' = [probe EXCEPT !.out = SunVertexShader(probe.position, probe.uniforms)]
    /\ UNCHANGED progVars

EvalFragment ==
    /\ probe.shader = "checker"
    /\ probe.out = Unset
    /\ probe' = [probe EXCEPT !.out = CheckerFragmentShader(probe.uv)]
    /\ UNCHANGED progVars

ShaderNext == EvalVertex \/ EvalFragment

ShaderSpec == ShaderInit /\ [][ShaderNext]_vars

(***************************************************************************)
(* Properties.                                                             *)
(***************************************************************************)
Running == pc = "running"
Frame == renderer.frame
AllCreatedOnce == \A k \in DOMAIN created : created[k] = 1

\* A resize was handled after the latest draw: the camera's aspect is no
\* longer the one the latest draw used.
ResizedSinceDraw == drawn.aspect # camera.aspect

\* The position of a statement in a tick's log, 0 when the tick did not run it.
Position(log, name) ==
    IF \E i \in 1..Len(log) : log[i] = name
    THEN CHOOSE i \in 1..Len(log) : log[i] = name
    ELSE 0
Before(log, a, b) ==
    (Position(log, a) > 0 /\ Position(log, b) > 0) => Position(log, a) < Position(log, b)
Count(log, name) == Cardinality({i \in 1..Len(log) : log[i] = name})

\* The time-dependent values the latest draw used are those of the same tick.
DrawnThisTick ==
    IF demo = "sun"
    THEN drawn.uniforms.uTime = uniforms.uTime
    ELSE /\ drawn.uniforms.m0uTime = uniforms.m0uTime
         /\ drawn.uniforms.m3uTime = uniforms.m3uTime
         /\ drawn.rotationY = rotationY

\* C1: in both demos, whenever the script has started and no resize event is
\* undelivered, sizes and the renderer's size are the window's width and
\* height, camera.aspect is width / height, and the renderer's pixel ratio is
\* min(devicePixelRatio, 2).
C1_ResizeRelation ==
    (Running /\ resizeEvents = 0) =>
        /\ sizes.width = window.innerWidth
        /\ sizes.height = window.innerHeight
        /\ camera.aspect[1] * window.innerHeight = camera.aspect[2] * window.innerWidth
        /\ camera.aspect[2] > 0
        /\ renderer.width = window.innerWidth
        /\ renderer.height = window.innerHeight
        /\ renderer.pixelRatio = (IF window.devicePixelRatio < 200
                                  THEN window.devicePixelRatio ELSE 200)

\* A resize to a screen with devicePixelRatio 3 has been handled since the
\* latest draw.
C1_Witness ==
    /\ Running
    /\ resizeEvents = 0
    /\ ResizedSinceDraw
    /\ window.devicePixelRatio = 300
    /\ renderer.pixelRatio = 200
    /\ sizes.width = 1920

\* The value 0.01 summed 100 times: 1.0000000000000007 = 1 + 3 * 2^-52.
SumOfHundred == [hi |-> HiNorm, lo |-> 3, e |-> -52]

\* C2 as stated: after 100 ticks of the pyramid demo rotation.y and both uTime
\* uniforms are exactly 1.0.
C2_ExactlyOne ==
    (demo = "pyramid" /\ Running /\ Frame = 100) =>
        /\ rotationY = DOne
        /\ uniforms.m0uTime = DOne
        /\ uniforms.m3uTime = DOne

\* C2 amended: after n ticks of the pyramid demo, whatever resize events were
\* interleaved, rotation.y and both uTime uniforms all hold the double that
\* results from adding 0.01 to 0.0 n times; after 100 ticks that double is
\* 1.0000000000000007, not 1.0.
C2_AccumulatedSum ==
    (demo = "pyramid" /\ Running) =>
        /\ \A sum \in {SumAfter(Frame)} :
              /\ rotationY = sum
              /\ uniforms.m0uTime = sum
              /\ uniforms.m3uTime = sum
        /\ (Frame = 100 => rotationY = SumOfHundred /\ rotationY # DOne)

C2_Witness ==
    /\ demo = "pyramid"
    /\ Running
    /\ Frame = 100
    /\ ResizedSinceDraw
    /\ rotationY = SumOfHundred

\* C3 as stated: in every tick the time uniforms are updated first, then
\* controls.update runs, then the rotation increment, then exactly one draw,
\* then the next tick is requested, and the draw sees this tick's values.
C3_ControlsBeforeRotation ==
    Running =>
        /\ Before(frameLog, "uTime", "controls")
        /\ Before(frameLog, "controls", "rotation")
        /\ Before(frameLog, "rotation", "render")
        /\ Before(frameLog, "controls", "render")
        /\ Before(frameLog, "render", "raf")
        /\ Count(frameLog, "render") = 1
        /\ Count(frameLog, "raf") = 1
        /\ DrawnThisTick

\* C3 amended: in every tick the time uniforms are updated first, then (in the
\* pyramid demo) the rotation increment is applied, then controls.update runs,
\* then exactly one draw is issued, and only then is the next tick requested;
\* the draw sees the uniforms and the rotation updated in that same tick.
C3_RotationBeforeControls ==
    Running =>
        /\ Position(frameLog, "uTime") > 0
        /\ Position(frameLog, "controls") > 0
        /\ (demo = "pyramid" <=> Position(frameLog, "rotation") > 0)
        /\ Before(frameLog, "uTime", "rotation")
        /\ Before(frameLog, "rotation", "controls")
        /\ Before(frameLog, "uTime", "controls")
        /\ Before(frameLog, "controls", "render")
        /\ Before(frameLog, "render", "raf")
        /\ Count(frameLog, "render") = 1
        /\ Count(frameLog, "raf") = 1
        /\ frameLog[Len(frameLog)] = "raf"
        /\ DrawnThisTick

C3_Witness ==
    /\ demo = "pyramid"
    /\ Running
    /\ Frame = 3
    /\ Position(frameLog, "rotation") = 2
    /\ Position(frameLog, "controls") = 3

\* C4: from startup on exactly one frame callback is pending between handler
\* runs, and with frame callbacks delivered fairly the loop keeps ticking
\* (here: up to the model's frame bound) whatever resize events, edits and
\* load outcomes are interleaved.
C4_LoopKeepsRunning ==
    /\ [](Running => (rafPending = 1 /\ fault = "none"))
    /\ <>[](Running => Frame = FrameCap)

C4_Witness ==
    /\ Running
    /\ rafPending = 1
    /\ Frame = FrameCap
    /\ ResizedSinceDraw
    /\ (demo = "sun" => edits = MaxEdits)

\* C5: in the sun demo each of the five numeric uniforms stays within the
\* range its control declares, and a value entered at or beyond a boundary
\* leaves the uniform at exactly that boundary.
C5_UniformsWithinRange ==
    (demo = "sun" /\ Running) =>
        \A c \in NumericControls :
            /\ ControlRange[c].min <= uniforms[c]
            /\ uniforms[c] <= ControlRange[c].max
            /\ \A v \in Entered(c) :
                  /\ (v <= ControlRange[c].min =>
                         EditEffect(uniforms, c, v)[c] = ControlRange[c].min)
                  /\ (v >= ControlRange[c].max =>
                         EditEffect(uniforms, c, v)[c] = ControlRange[c].max)

C5_Witness ==
    /\ demo = "sun"
    /\ Running
    /\ Frame = 2
    /\ uniforms.uWaveHeight = 50
    /\ uniforms.uSmallWaveFrequency = 100

\* C6 as stated: with the initial uniforms and uTime = 0 the sun's vertex
\* shader displaces no vertex of the sphere.
C6_NoDisplacementAnywhere ==
    (probe.shader = "sunVertex" /\ probe.out # Unset
        /\ probe.uniforms = SunInitialUniforms) =>
        /\ probe.out.displacement = 0
        /\ probe.out.newPosition = [x |-> probe.position.x * 1000,
                                    y |-> probe.position.y * 1000,
                                    z |-> probe.position.z * 1000]

\* C6 amended: with the initial uniforms and uTime = 0 the displacement is 0,
\* and the output position is the input position, at the vertices with
\* position.x = 0 and position.y = 0; elsewhere the terms sin(10 x) and
\* sin(10 y) remain, and at the four vertices (+-1, 0, 0) and (0, +-1, 0) the
\* displacement is not 0.
C6_NoDisplacementOnAxis ==
    (probe.shader = "sunVertex" /\ probe.out # Unset
        /\ probe.uniforms = SunInitialUniforms) =>
        /\ (probe.position.x = 0 /\ probe.position.y = 0) =>
              /\ probe.out.displacement = 0
              /\ probe.out.newPosition = [x |-> 0, y |-> 0,
                                          z |-> probe.position.z * 1000]
        /\ (probe.position.z = 0
              /\ (probe.position.x = 0 \/ probe.position.y = 0)) =>
              probe.out.displacement # 0

C6_Witness ==
    /\ probe.shader = "sunVertex"
    /\ probe.out # Unset
    /\ probe.uniforms = SunInitialUniforms
    /\ probe.position = [x |-> 0, y |-> 0, z |-> 1000]
    /\ probe.out.displacement = 0

\* C7: for every (u, v) in the unit square the checkerboard's parity value is
\* 0 or 1, the colour is white when floor(10u) + floor(10v) is even and black
\* when it is odd, and moving u by 0.1 flips the parity.
C7_Checkerboard ==
    (probe.shader = "checker" /\ probe.out # Unset) =>
        LET u == probe.uv[1]
            v == probe.uv[2]
            cells == (u \div 100) + (v \div 100)
        IN  /\ probe.out.checker \in {0, 1}
            /\ (cells % 2 = 0 => probe.out.color = <<1, 1, 1>>)
            /\ (cells % 2 = 1 => probe.out.color = <<0, 0, 0>>)
            /\ (u + 100 <= 1000 =>
                   CheckerFragmentShader(<<u + 100, v>>).checker = 1 - probe.out.checker)

C7_Witness ==
    /\ probe.shader = "checker"
    /\ probe.out # Unset
    /\ probe.uv = <<275, 500>>
    /\ probe.out.color = <<0, 0, 0>>

\* C8: in the sun demo every draw uses, for each editable uniform, the value
\* the latest edit of its control wrote (the initial value if there was none),
\* and a tick leaves every editable uniform as it found it.
C8_DrawUsesLatestEdit ==
    /\ []((demo = "sun" /\ Running) =>
             \A c \in NumericControls \cup ColorControls : uniforms[c] = written[c])
    /\ [][(demo = "sun" /\ pc' = "running"
             /\ (pc = "loading" \/ renderer'.frame # renderer.frame)) =>
            \A c \in NumericControls \cup ColorControls :
                /\ drawn'.uniforms[c] = written'[c]
                /\ uniforms'[c] = written'[c]]_vars

C8_Witness ==
    /\ demo = "sun"
    /\ Running
    /\ Frame = 2
    /\ edits = 2
    /\ drawn.uniforms.uWaveSpeed = 500
    /\ drawn.uniforms.uDepthColor = <<0, 0, 100>>
    /\ drawn.uniforms.uWaveHeight = 15

\* C9: in the pyramid demo the first draw happens at startup with the cube map
\* still loading, and whether the load completes, fails or never ends, a
\* pending frame callback stays runnable, the outcome changes nothing the
\* loop reads or writes, and no error is reported.
C9_LoopIgnoresCubeMapLoad ==
    /\ []((demo = "pyramid" /\ Running) =>
             /\ Frame >= 1
             /\ (Frame = 1 => drawn.envMap = "loading")
             /\ rafPending = 1
             /\ fault = "none"
             /\ (Frame < MaxTicks => ENABLED Tick)
             /\ rotationY = SumAfter(Frame))
    /\ [][(demo = "pyramid" /\ pc = "running" /\ envMap' # envMap) =>
            UNCHANGED <<uniforms, rotationY, renderer, rafPending, drawn, frameLog,
                        fault, camera, sizes>>]_vars

C9_Witness ==
    /\ demo = "pyramid"
    /\ Running
    /\ envMap = "failed"
    /\ drawn.envMap = "failed"
    /\ Frame = 5

\* C10: in both demos a resize handler run or a tick can happen only once
\* scene, camera, controls and renderer have each been constructed exactly
\* once, so no handler run ends in a fault.
C10_HandlersSeeInitialisedObjects ==
    /\ fault = "none"
    /\ (Running <=> "resize" \in listeners)
    /\ (Running => AllCreatedOnce)
    /\ (ENABLED ResizeHandler => AllCreatedOnce)
    /\ (ENABLED Tick => AllCreatedOnce)
    /\ (resizeEvents > 0 => AllCreatedOnce)

C10_Witness ==
    /\ Running
    /\ ResizedSinceDraw
    /\ resizeEvents = 0
    /\ sizes.width = window.innerWidth
    /\ Frame = 2

====
